---- MODULE Spec2Model ----
(***************************************************************************)
(* Model of the Streamlit trademark search console (src/main.py).          *)
(*                                                                         *)
(* Streamlit re-executes the whole script on every widget interaction.     *)
(* One action of the model is one such run: the interaction that triggered *)
(* it, every network call the run makes, and everything the run renders.   *)
(* A button is True only in the run its click triggered, so the output of  *)
(* a handler is replaced by the output of the next run.                    *)
(*                                                                         *)
(* Scores, probabilities, weights and thresholds are floats in the source; *)
(* the model keeps them in fixed point: scores and probabilities in        *)
(* thousandths (0.7 is 700), weights and thresholds in hundredths (0.5 is  *)
(* 50).  Text typed by the user is a sequence of one-character strings.    *)
(* A dict of the source is a function whose DOMAIN is the set of its keys, *)
(* so that  k \in DOMAIN d  is the source's  'k' in d.                     *)
(***************************************************************************)
EXTENDS Integers, Sequences, FiniteSets, TLC

VARIABLES top_n, candidate_pool, semantic_weight, use_ocr, vienna_threshold,
          uploaded_file, uploaded_file_auto, uploaded_file_vienna, query,
          panel, calls, replies, wire, response, rendered

vars == <<top_n, candidate_pool, semantic_weight, use_ocr, vienna_threshold,
          uploaded_file, uploaded_file_auto, uploaded_file_vienna, query,
          panel, calls, replies, wire, response, rendered>>

config == <<top_n, candidate_pool, semantic_weight, use_ocr, vienna_threshold>>

inputs == <<uploaded_file, uploaded_file_auto, uploaded_file_vienna, query>>

(***************************************************************************)
(* Bounds of the model.                                                    *)
(***************************************************************************)
\* positions next to the lower end and next to the default that a slider is moved to
SliderPositions == 2
\* longest text typed into the query box
MaxQueryLen == 3
\* longest result list of an image search response
MaxResults == 2
\* longest result list of a text search response
MaxTextResults == 1
\* most results of an automated search response, all weight groups together
MaxAutoResults == 2
\* longest prediction list of a Vienna response
MaxPreds == 2

(***************************************************************************)
(* The sidebar widgets: ranges, steps and defaults.                        *)
(***************************************************************************)
TOP_N_MIN == 5
TOP_N_MAX == 50
TOP_N_DEFAULT == 10
POOL_MIN == 50
POOL_MAX == 2000
POOL_STEP == 50
POOL_DEFAULT == 200
WEIGHT_DEFAULT == 50
THRESHOLD_MIN == 0
THRESHOLD_MAX == 100
THRESHOLD_STEP == 5
THRESHOLD_DEFAULT == 20

\* the values a slider with this range and step can return
SliderRange(lo, hi, step) == { v \in lo..hi : (v - lo) % step = 0 }

\* the slider values the model moves to: both ends, the default, and the
\* SliderPositions steps above the lower end and above the default
SliderSample(lo, hi, step, default) ==
    { v \in SliderRange(lo, hi, step) :
        \/ v \in {lo, hi, default}
        \/ v - lo <= SliderPositions * step
        \/ (v >= default /\ v - default <= SliderPositions * step) }

TopNValues == SliderSample(TOP_N_MIN, TOP_N_MAX, 1, TOP_N_DEFAULT)

\* the slider of the candidate pool starting at zero
CandidatePoolValuesFromZero == SliderSample(0, POOL_MAX, POOL_STEP, POOL_DEFAULT)

CandidatePoolValues == SliderSample(POOL_MIN, POOL_MAX, POOL_STEP, POOL_DEFAULT)

SemanticWeightOptions == {0, 25, 50, 75, 100}

ViennaThresholdValues ==
    SliderSample(THRESHOLD_MIN, THRESHOLD_MAX, THRESHOLD_STEP, THRESHOLD_DEFAULT)

(***************************************************************************)
(* Network: what a call can come back with.                                *)
(***************************************************************************)
HEALTH_TIMEOUT == 10
THUMB_TIMEOUT == 10
IMAGE_TIMEOUT == 60
AUTO_TIMEOUT == 120
TEXT_TIMEOUT == 30
VIENNA_TIMEOUT == 60

\* no service call was made in this run
NoResponse == [kind |-> "none"]

\* the service call of this run is outstanding: the script is blocked in
\* requests.get or requests.post and the page shows what was rendered so far
Pending == [kind |-> "pending"]

\* requests.exceptions.Timeout and requests.exceptions.ConnectionError,
\* both subclasses of RequestException
RequestFailures == { [kind |-> "timeout"], [kind |-> "connection_error"] }

StatusCodes == {200, 201, 404, 500}

\* the body of a response that is not a 200
ErrorBodies == { <<"detail", "internal error">>, <<"Not Found">> }

\* an HTTP response: status_code, text (the raw body) and what
\* response.json() gives: json_ok is FALSE when the body is not JSON
HttpResponse(status, text, json_ok, data) ==
    [kind |-> "response", status_code |-> status, text |-> text,
     json_ok |-> json_ok, data |-> data]

ErrorResponses ==
    { HttpResponse(s, b, TRUE, [detail |-> "internal error"]) :
        s \in StatusCodes \ {200}, b \in ErrorBodies }

\* a 200 whose body is not JSON
NotJsonResponse == HttpResponse(200, <<"<html>">>, FALSE, [detail |-> "none"])

(***************************************************************************)
(* Rendered elements.                                                      *)
(***************************************************************************)
StError(msg) == [w |-> "error", msg |-> msg]

StSuccess(msg) == [w |-> "success", msg |-> msg]

StInfo(msg) == [w |-> "info", msg |-> msg]

StWarning(msg) == [w |-> "warning", msg |-> msg]

StDivider == [w |-> "divider"]

StSubheader(msg) == [w |-> "subheader", msg |-> msg]

StMetricN(label, n) == [w |-> "metric", label |-> label, n |-> n]

StMetricS(label, s) == [w |-> "metric", label |-> label, s |-> s]

\* with st.expander("Error Details"): st.code(response.text)
StExpanderCode(label, text) == [w |-> "expander_code", label |-> label, text |-> text]

\* with st.expander("Details"): st.json(health)
StExpanderJson(label, data) == [w |-> "expander_json", label |-> label, data |-> data]

\* the status code alone, the body dropped
ApiErrorWithoutBody(resp) == << StError(<<"API Error", resp.status_code>>) >>

\* the else branch of every panel: the status code and the body
ApiError(resp) ==
    << StError(<<"API Error", resp.status_code>>),
       StExpanderCode("Error Details", resp.text) >>

\* the clause  except Exception  placed first
ConnectionErrorMsgAsOther(what) == << StError(<<"Error", what>>) >>

\* except requests.exceptions.RequestException
ConnectionErrorMsg(what) == << StError(<<"Connection error", what>>) >>

\* except Exception
OtherErrorMsg(what) == << StError(<<"Error", what>>) >>

(***************************************************************************)
(* Dicts and text.                                                         *)
(***************************************************************************)
\* d.get(k, default)
Get(d, k, default) == IF k \in DOMAIN d THEN d[k] ELSE default

\* truth value of a string: the empty string is falsy
Truthy(s) == s # ""

\* 'k' in d and d[k]
HasTruthy(d, k) == k \in DOMAIN d /\ Truthy(d[k])

RECURSIVE Flatten(_)
\* the concatenation of a sequence of sequences
Flatten(ss) == IF ss = <<>> THEN <<>> ELSE Head(ss) \o Flatten(Tail(ss))

\* the sequences over S of length at most n
SeqUpTo(S, n) == UNION { [1..k -> S] : k \in 0..n }

(***************************************************************************)
(* Score class.                                                            *)
(***************************************************************************)
HIGH_THRESHOLD == 700
MEDIUM_THRESHOLD == 400

\* the thresholds taken as exclusive
get_score_class_exclusive(score) ==
    IF score > HIGH_THRESHOLD THEN "score-high"
    ELSE IF score > MEDIUM_THRESHOLD THEN "score-medium"
    ELSE "score-low"

get_score_class(score) ==
    IF score >= HIGH_THRESHOLD THEN "score-high"
    ELSE IF score >= MEDIUM_THRESHOLD THEN "score-medium"
    ELSE "score-low"

(***************************************************************************)
(* Result cards.                                                           *)
(***************************************************************************)
\* the result objects the service answers with; every field is optional
ResultObjects ==
    { [application_number |-> "TM-1", verbal_element |-> "NIKE", class |-> "25",
       trade_mark_type |-> "DEVICE", tmr_application_status |-> "Registered",
       application_date |-> "2001-01-01", trade_mark_reg_date |-> "2002-02-02",
       image_url |-> "http://img/1", final_score |-> 700,
       semantic_score_norm |-> 800, text_score_norm |-> 400],
      [application_number |-> "TM-2", verbal_element |-> "", class |-> "9",
       application_date |-> "2010-10-10", image_url |-> "http://img/2",
       score |-> 400],
      [application_number |-> "TM-3", image_url |-> "", text_score |-> 399],
      [tmr_application_status |-> "Objected"] }

\* what the GET of a thumbnail comes back with: an image, a 200 whose bytes
\* PIL cannot open, a 404, or no response within the timeout
ThumbOutcomes ==
    { [kind |-> "response", status_code |-> 200, is_image |-> TRUE],
      [kind |-> "response", status_code |-> 200, is_image |-> FALSE],
      [kind |-> "response", status_code |-> 404, is_image |-> FALSE],
      [kind |-> "timeout"] }

\* no thumbnail was fetched
NoThumb == [kind |-> "none"]

\* the result makes display_result_card fetch a thumbnail
FetchesThumb(result) == HasTruthy(result, "image_url")

ThumbCall(result) ==
    [method |-> "GET", url |-> result.image_url, timeout |-> THUMB_TIMEOUT]

\* col1: the thumbnail or its placeholder
CardImage(result, thumb) ==
    IF FetchesThumb(result)
    THEN IF thumb.kind = "response"
         THEN IF thumb.status_code = 200
              THEN IF thumb.is_image
                   THEN [w |-> "image", url |-> result.image_url]
                   ELSE StWarning("Image load failed")
              ELSE StInfo("Image unavailable")
         ELSE StWarning("Image load failed")
    ELSE StInfo("No image")

\* col2: application number, brand, metadata and dates
CardDetails(result) ==
    LET meta_items ==
            (IF "class" \in DOMAIN result
                THEN << <<"Class", result.class>> >> ELSE <<>>)
            \o (IF "trade_mark_type" \in DOMAIN result
                THEN << <<"Type", result.trade_mark_type>> >> ELSE <<>>)
            \o (IF "tmr_application_status" \in DOMAIN result
                THEN << <<"Status", result.tmr_application_status>> >> ELSE <<>>)
        date_items ==
            (IF HasTruthy(result, "application_date")
                THEN << <<"Applied", result.application_date>> >> ELSE <<>>)
            \o (IF HasTruthy(result, "trade_mark_reg_date")
                THEN << <<"Registered", result.trade_mark_reg_date>> >> ELSE <<>>)
    IN  << [w |-> "markdown", label |-> "Application",
            text |-> Get(result, "application_number", "N/A")] >>
        \o (IF HasTruthy(result, "verbal_element")
            THEN << [w |-> "markdown", label |-> "Brand",
                     text |-> result.verbal_element] >>
            ELSE <<>>)
        \o (IF meta_items # <<>>
            THEN << [w |-> "caption", items |-> meta_items] >> ELSE <<>>)
        \o (IF date_items # <<>>
            THEN << [w |-> "caption", items |-> date_items] >> ELSE <<>>)

ScoreBadge(score) ==
    [w |-> "badge", class |-> get_score_class(score), score |-> score]

\* one badge for every score field the result carries
CardScoresEveryField(result, show_weights) ==
    (IF "final_score" \in DOMAIN result
        THEN << ScoreBadge(result.final_score) >> ELSE <<>>)
    \o (IF "score" \in DOMAIN result
        THEN << ScoreBadge(result.score) >> ELSE <<>>)
    \o (IF "text_score" \in DOMAIN result
        THEN << ScoreBadge(result.text_score) >> ELSE <<>>)

\* col3: one score badge, and the two normalised scores under a final_score
CardScores(result, show_weights) ==
    IF "final_score" \in DOMAIN result
    THEN << ScoreBadge(result.final_score) >>
         \o (IF show_weights
             THEN << [w |-> "caption",
                      items |-> << <<"Semantic", Get(result, "semantic_score_norm", 0)>> >>],
                     [w |-> "caption",
                      items |-> << <<"Text", Get(result, "text_score_norm", 0)>> >>] >>
             ELSE <<>>)
    ELSE IF "score" \in DOMAIN result
    THEN << ScoreBadge(result.score) >>
    ELSE IF "text_score" \in DOMAIN result
    THEN << ScoreBadge(result.text_score) >>
    ELSE <<>>

\* the thumbnail fetch outside any try: a failed fetch leaves the card with
\* its first column only
display_result_card_unguarded(result, show_weights, thumb) ==
    IF CardImage(result, thumb).w = "warning"
    THEN << [w |-> "card", col1 |-> CardImage(result, thumb),
             col2 |-> <<>>, col3 |-> <<>>] >>
    ELSE << [w |-> "card",
             col1 |-> CardImage(result, thumb),
             col2 |-> CardDetails(result),
             col3 |-> CardScores(result, show_weights)],
            StDivider >>

\* one call of display_result_card: the card and the divider under it
display_result_card(result, show_weights, thumb) ==
    << [w |-> "card",
        col1 |-> CardImage(result, thumb),
        col2 |-> CardDetails(result),
        col3 |-> CardScores(result, show_weights)],
       StDivider >>

\* the loop skips the results whose score class is the low one
RenderResultsSkippingLow(results, show_weights, thumbs) ==
    Flatten([i \in 1..Len(results) |->
                IF \E b \in { CardScores(results[i], show_weights)[k] :
                                 k \in 1..Len(CardScores(results[i], show_weights)) } :
                       b.w = "badge" /\ b.class = "score-low"
                THEN <<>>
                ELSE display_result_card(results[i], show_weights, thumbs[i])])

\* for result in results: display_result_card(result, show_weights);
\* thumbs[i] is what the thumbnail fetch of the i-th result comes back with
RenderResults(results, show_weights, thumbs) ==
    Flatten([i \in 1..Len(results) |->
                display_result_card(results[i], show_weights, thumbs[i])])

\* the thumbnail fetches of that loop in the order they are made: the call
\* and what it came back with
ThumbFetches(results, thumbs) ==
    Flatten([i \in 1..Len(results) |->
                IF FetchesThumb(results[i])
                THEN << [call |-> ThumbCall(results[i]), reply |-> thumbs[i]] >>
                ELSE <<>>])

CallsOf(fetched) == [i \in 1..Len(fetched) |-> fetched[i].call]

RepliesOf(fetched) == [i \in 1..Len(fetched) |-> fetched[i].reply]

ResultLists == SeqUpTo(ResultObjects, MaxResults)

(***************************************************************************)
(* The initial run: every widget at its default, nothing clicked.          *)
(***************************************************************************)
NoFile == [present |-> FALSE]

\* an uploaded file and its bytes; a zero-byte file has no bytes
File(bytes) == [present |-> TRUE, bytes |-> bytes]

Files == { NoFile, File(<<>>), File(<<137, 80>>) }

Init ==
    /\ top_n = TOP_N_DEFAULT
    /\ candidate_pool = POOL_DEFAULT
    /\ semantic_weight = WEIGHT_DEFAULT
    /\ use_ocr = TRUE
    /\ vienna_threshold = THRESHOLD_DEFAULT
    /\ uploaded_file = NoFile
    /\ uploaded_file_auto = NoFile
    /\ uploaded_file_vienna = NoFile
    /\ query = <<>>
    /\ panel = "none"
    /\ calls = <<>>
    /\ replies = <<>>
    /\ wire = <<>>
    /\ response = NoResponse
    /\ rendered = <<>>

\* requests.get or requests.post is entered: the call goes out
SendEvent(call) == [ev |-> "send", url |-> call.url]

\* requests.get or requests.post is left, with a response or an exception
ReturnEvent(call) == [ev |-> "return", url |-> call.url]

\* every thumbnail fetched before the first card is drawn
WireOfPrefetched(fetched) ==
    [i \in 1..Len(fetched) |-> SendEvent(fetched[i].call)]
        \o [i \in 1..Len(fetched) |-> ReturnEvent(fetched[i].call)]

\* the thumbnail fetches on the wire: requests.get blocks, so each fetch
\* returns before the loop goes on to the next card
WireOf(fetched) ==
    Flatten([i \in 1..Len(fetched) |->
                << SendEvent(fetched[i].call), ReturnEvent(fetched[i].call) >>])

\* the script is not blocked in a network call: the page takes interactions
Idle == response # Pending

\* a handler sends its one request to the service and blocks
Sends(name, call) ==
    /\ panel' = name
    /\ calls' = << call >>
    /\ replies' = <<>>
    /\ wire' = << SendEvent(call) >>
    /\ response' = Pending
    /\ rendered' = <<>>

\* the handler of that panel is blocked in its request
Awaits(name) == panel = name /\ response = Pending

\* a run in which no button is True: no handler runs, nothing of an earlier
\* handler stays on the page
NoHandler ==
    /\ panel' = "none"
    /\ calls' = <<>>
    /\ replies' = <<>>
    /\ wire' = <<>>
    /\ response' = NoResponse
    /\ rendered' = <<>>

(***************************************************************************)
(* Sidebar controls.                                                       *)
(***************************************************************************)
SetTopN ==
    \E v \in TopNValues :
        /\ Idle
        /\ v # top_n
        /\ top_n' = v
        /\ UNCHANGED <<candidate_pool, semantic_weight, use_ocr, vienna_threshold>>
        /\ UNCHANGED inputs
        /\ NoHandler

SetCandidatePool ==
    \E v \in CandidatePoolValues :
        /\ Idle
        /\ v # candidate_pool
        /\ candidate_pool' = v
        /\ UNCHANGED <<top_n, semantic_weight, use_ocr, vienna_threshold>>
        /\ UNCHANGED inputs
        /\ NoHandler

SetSemanticWeight ==
    \E v \in SemanticWeightOptions :
        /\ Idle
        /\ v # semantic_weight
        /\ semantic_weight' = v
        /\ UNCHANGED <<top_n, candidate_pool, use_ocr, vienna_threshold>>
        /\ UNCHANGED inputs
        /\ NoHandler

SetUseOcr ==
    /\ Idle
    /\ use_ocr' = ~use_ocr
    /\ UNCHANGED <<top_n, candidate_pool, semantic_weight, vienna_threshold>>
    /\ UNCHANGED inputs
    /\ NoHandler

SetViennaThreshold ==
    \E v \in ViennaThresholdValues :
        /\ Idle
        /\ v # vienna_threshold
        /\ vienna_threshold' = v
        /\ UNCHANGED <<top_n, candidate_pool, semantic_weight, use_ocr>>
        /\ UNCHANGED inputs
        /\ NoHandler

(***************************************************************************)
(* Health check.                                                           *)
(***************************************************************************)
HealthPayloads == { [status |-> "ok"], [status |-> "degraded"] }

HealthResponses ==
    { HttpResponse(200, <<"health">>, TRUE, h) : h \in HealthPayloads }
        \cup { NotJsonResponse } \cup ErrorResponses

HealthCall == [method |-> "GET", url |-> "/health", timeout |-> HEALTH_TIMEOUT]

\* any HTTP response taken for a healthy service
HealthOutputAnyStatus(resp) ==
    IF resp.kind = "response"
    THEN IF resp.json_ok
         THEN << StSuccess("API Healthy!"), StExpanderJson("Details", resp.data) >>
         ELSE << StError("Cannot connect to API") >>
    ELSE << StError("Cannot connect to API") >>

\* what the handler renders for the outcome of the one GET
HealthOutput(resp) ==
    IF resp.kind = "response"
    THEN IF resp.status_code = 200
         THEN IF resp.json_ok
              THEN << StSuccess("API Healthy!"), StExpanderJson("Details", resp.data) >>
              ELSE << StError("Cannot connect to API") >>
         ELSE << StError("API Unhealthy") >>
    ELSE << StError("Cannot connect to API") >>

ClickHealth ==
    /\ Idle
    /\ Sends("health", HealthCall)
    /\ UNCHANGED config
    /\ UNCHANGED inputs

\* requests.get returns or raises, and the handler renders the outcome
HealthReturns ==
    /\ Awaits("health")
    /\ \E resp \in HealthResponses \cup RequestFailures :
            /\ response' = resp
            /\ rendered' = HealthOutput(resp)
    /\ wire' = wire \o << ReturnEvent(calls[1]) >>
    /\ UNCHANGED <<panel, calls, replies>>
    /\ UNCHANGED config
    /\ UNCHANGED inputs

(***************************************************************************)
(* What the panels share.                                                  *)
(***************************************************************************)
\* response.json() raised on a 200 whose body is not JSON.  The exception is
\* a requests.exceptions.JSONDecodeError (a RequestException) in requests
\* 2.27 and later and a plain ValueError before; the repository pins no
\* version, so as_request_exception is either.
JsonError(as_request_exception) ==
    IF as_request_exception
    THEN ConnectionErrorMsg("JSONDecodeError")
    ELSE OtherErrorMsg("JSONDecodeError")

\* data[key] on a dict without that key
KeyError(key) == OtherErrorMsg(<<"KeyError", key>>)

\* what a handler leaves behind: the elements it rendered and the thumbnail
\* fetches it made, each with its outcome
Ran(out, fetched) == [out |-> out, fetched |-> fetched]

\* if data.get('ocr_text'): ...  if data.get('cleaned_ocr_text'): ...
OcrElements(data) ==
    IF Truthy(Get(data, "ocr_text", ""))
    THEN << StSuccess(<<"OCR Extracted", data.ocr_text>>) >>
         \o (IF Truthy(Get(data, "cleaned_ocr_text", ""))
             THEN << StInfo(<<"Cleaned Text", data.cleaned_ocr_text>>) >>
             ELSE <<>>)
    ELSE <<>>

\* the optional fields of an image or automated search response
OcrFields ==
    { [shape_focus_active |-> FALSE],
      [ocr_text |-> "NIKE"],
      [ocr_text |-> "NIKE", cleaned_ocr_text |-> "nike", shape_focus_active |-> TRUE] }

\* the results a handler walks through after this response
ResultsOf(resp) ==
    IF resp.kind = "response" /\ resp.status_code = 200 /\ resp.json_ok
       /\ "results" \in DOMAIN resp.data
    THEN resp.data.results
    ELSE <<>>

\* one outcome for every thumbnail fetch the loop over results makes, and
\* NoThumb where display_result_card fetches nothing
ThumbChoices(results) ==
    { t \in [1..Len(results) -> ThumbOutcomes \cup {NoThumb}] :
        \A i \in 1..Len(results) : FetchesThumb(results[i]) <=> t[i] # NoThumb }

\* the exception classes response.json() can raise on this response
JsonErrorChoices(resp) ==
    IF resp.kind = "response" /\ resp.status_code = 200 /\ ~resp.json_ok
    THEN BOOLEAN ELSE {FALSE}

(***************************************************************************)
(* Tab 1: image search.                                                    *)
(***************************************************************************)
UploadImage ==
    \E f \in Files :
        /\ Idle
        /\ f # uploaded_file
        /\ uploaded_file' = f
        /\ UNCHANGED <<uploaded_file_auto, uploaded_file_vienna, query>>
        /\ UNCHANGED config
        /\ NoHandler

ImageCall ==
    [method |-> "POST", url |-> "/search/image",
     files |-> [file |-> uploaded_file.bytes],
     params |-> [top_n |-> top_n, semantic_weight |-> semantic_weight,
                 use_ocr |-> use_ocr, candidate_pool |-> candidate_pool],
     timeout |-> IMAGE_TIMEOUT]

\* the JSON bodies of a 200: the contract's body, and bodies that lack one of
\* the keys the handler indexes
ImageBodies ==
    { [results |-> rs, semantic_weight |-> semantic_weight] @@ o :
        rs \in ResultLists, o \in OcrFields }
        \cup { [results |-> rs] : rs \in ResultLists }
        \cup { [semantic_weight |-> semantic_weight] }

ImageResponses ==
    { HttpResponse(200, <<"image">>, TRUE, d) : d \in ImageBodies }
        \cup { NotJsonResponse } \cup ErrorResponses

\* the body of  if response.status_code == 200:
ImageSuccess(data, thumbs) ==
    IF "results" \notin DOMAIN data
    THEN Ran(KeyError("results"), <<>>)
    ELSE IF "semantic_weight" \notin DOMAIN data
    THEN Ran(<< StMetricN("Results Found", Len(data.results)) >>
                \o KeyError("semantic_weight"), <<>>)
    ELSE Ran(<< StMetricN("Results Found", Len(data.results)),
                StMetricN("Semantic Weight", data.semantic_weight),
                StMetricS("Shape Focus",
                          IF Get(data, "shape_focus_active", FALSE)
                          THEN "Active" ELSE "Inactive") >>
                \o OcrElements(data)
                \o << StDivider, StSubheader("Search Results") >>
                \o RenderResults(data.results, TRUE, thumbs),
             ThumbFetches(data.results, thumbs))

ImageHandler(resp, thumbs, as_request_exception) ==
    IF resp.kind # "response"
    THEN Ran(ConnectionErrorMsg(resp.kind), <<>>)
    ELSE IF resp.status_code = 200
    THEN IF resp.json_ok
         THEN ImageSuccess(resp.data, thumbs)
         ELSE Ran(JsonError(as_request_exception), <<>>)
    ELSE Ran(ApiError(resp), <<>>)

\* the search button exists only while a file is uploaded
ClickImageSearch ==
    /\ Idle
    /\ uploaded_file.present
    /\ Sends("image", ImageCall)
    /\ UNCHANGED config
    /\ UNCHANGED inputs

\* requests.post returns or raises, and the handler runs to its end
ImageSearchReturns ==
    /\ Awaits("image")
    /\ \E resp \in ImageResponses \cup RequestFailures :
        \E thumbs \in ThumbChoices(ResultsOf(resp)), e \in JsonErrorChoices(resp) :
            LET ran == ImageHandler(resp, thumbs, e)
            IN  /\ calls' = calls \o CallsOf(ran.fetched)
                /\ replies' = RepliesOf(ran.fetched)
                /\ wire' = wire \o << ReturnEvent(calls[1]) >> \o WireOf(ran.fetched)
                /\ response' = resp
                /\ rendered' = ran.out
    /\ UNCHANGED panel
    /\ UNCHANGED config
    /\ UNCHANGED inputs

(***************************************************************************)
(* Tab 3: text search.                                                     *)
(***************************************************************************)
Whitespace == { " ", "\t" }

Chars == Whitespace \cup { "a" }

RECURSIVE lstrip(_)
lstrip(s) ==
    IF s # <<>> /\ Head(s) \in Whitespace THEN lstrip(Tail(s)) ELSE s

RECURSIVE rstrip(_)
rstrip(s) ==
    IF s # <<>> /\ s[Len(s)] \in Whitespace
    THEN rstrip(SubSeq(s, 1, Len(s) - 1))
    ELSE s

\* str.strip(): the text without its leading and trailing whitespace
strip(s) == rstrip(lstrip(s))

SetQuery ==
    \E q \in SeqUpTo(Chars, MaxQueryLen) :
        /\ Idle
        /\ q # query
        /\ query' = q
        /\ UNCHANGED <<uploaded_file, uploaded_file_auto, uploaded_file_vienna>>
        /\ UNCHANGED config
        /\ NoHandler

\* params = {'query': query.strip(), 'top_n': top_n}
TextParams == [query |-> strip(query), top_n |-> top_n]

TextCall ==
    [method |-> "GET", url |-> "/search/text", params |-> TextParams,
     timeout |-> TEXT_TIMEOUT]

\* the handler runs on any text that was typed, blank or not
TextSearchRunsUntrimmed == query # <<>>

\* the second operand of the if: query.strip() is truthy
TextSearchRuns == strip(query) # <<>>

TextResultLists == SeqUpTo(ResultObjects, MaxTextResults)

TextBodies ==
    { [results |-> rs] : rs \in TextResultLists }
        \cup { [results |-> rs, cleaned_query |-> <<"a">>] : rs \in TextResultLists }
        \cup { [cleaned_query |-> <<"a">>] }

TextResponses ==
    { HttpResponse(200, <<"text">>, TRUE, d) : d \in TextBodies }
        \cup { NotJsonResponse } \cup ErrorResponses

TextSuccess(data, thumbs) ==
    IF "results" \notin DOMAIN data
    THEN Ran(KeyError("results"), <<>>)
    ELSE Ran(<< StMetricN("Results Found", Len(data.results)),
                StInfo(<<"Cleaned Query", Get(data, "cleaned_query", query)>>),
                StDivider, StSubheader("Search Results") >>
                \o RenderResults(data.results, FALSE, thumbs),
             ThumbFetches(data.results, thumbs))

TextHandler(resp, thumbs, as_request_exception) ==
    IF resp.kind # "response"
    THEN Ran(ConnectionErrorMsg(resp.kind), <<>>)
    ELSE IF resp.status_code = 200
    THEN IF resp.json_ok
         THEN TextSuccess(resp.data, thumbs)
         ELSE Ran(JsonError(as_request_exception), <<>>)
    ELSE Ran(ApiError(resp), <<>>)

\* a click on the button of the text panel: the handler runs only if the
\* trimmed query is not empty
ClickTextSearch ==
    /\ Idle
    /\ IF TextSearchRuns
       THEN Sends("text", TextCall)
       ELSE /\ panel' = "text"
            /\ calls' = <<>>
            /\ replies' = <<>>
            /\ wire' = <<>>
            /\ response' = NoResponse
            /\ rendered' = <<>>
    /\ UNCHANGED config
    /\ UNCHANGED inputs

\* requests.get returns or raises, and the handler runs to its end
TextSearchReturns ==
    /\ Awaits("text")
    /\ \E resp \in TextResponses \cup RequestFailures :
        \E thumbs \in ThumbChoices(ResultsOf(resp)), e \in JsonErrorChoices(resp) :
            LET ran == TextHandler(resp, thumbs, e)
            IN  /\ calls' = calls \o CallsOf(ran.fetched)
                /\ replies' = RepliesOf(ran.fetched)
                /\ wire' = wire \o << ReturnEvent(calls[1]) >> \o WireOf(ran.fetched)
                /\ response' = resp
                /\ rendered' = ran.out
    /\ UNCHANGED panel
    /\ UNCHANGED config
    /\ UNCHANGED inputs

(***************************************************************************)
(* Tab 2: automated multi-weight search.                                   *)
(***************************************************************************)
UploadAuto ==
    \E f \in Files :
        /\ Idle
        /\ f # uploaded_file_auto
        /\ uploaded_file_auto' = f
        /\ UNCHANGED <<uploaded_file, uploaded_file_vienna, query>>
        /\ UNCHANGED config
        /\ NoHandler

AutoCall ==
    [method |-> "POST", url |-> "/search/automated",
     files |-> [file |-> uploaded_file_auto.bytes],
     params |-> [top_n |-> top_n, use_ocr |-> use_ocr,
                 candidate_pool |-> candidate_pool],
     timeout |-> AUTO_TIMEOUT]

\* the weight lists the service answers for: its fixed five, and shorter ones
WeightLists == { <<0, 25, 50, 75, 100>>, <<100, 50, 0>>, <<50>>, <<>> }

\* where a flat list of n results is cut into k groups: the group of each
\* result, never decreasing
GroupCuts(n, k) ==
    { g \in [1..n -> 1..k] : \A i \in 1..n : \A j \in i..n : g[i] <= g[j] }

\* the results of the flat list that fall into group i, in their order
RECURSIVE GroupSlice(_, _, _)
GroupSlice(flat, g, i) ==
    IF flat = <<>> THEN <<>>
    ELSE (IF Head(g) = i THEN << Head(flat) >> ELSE <<>>)
         \o GroupSlice(Tail(flat), Tail(g), i)

\* one entry of results_by_weight
WeightResult(sw, results) ==
    [semantic_weight |-> sw, text_weight |-> 100 - sw,
     shape_focus_active |-> (sw = 100), results |-> results]

\* the results_by_weight lists of a response: one entry per weight searched,
\* in that order, with at most MaxAutoResults results in all
ResultsByWeight(ws) ==
    { [i \in 1..Len(ws) |-> WeightResult(ws[i], GroupSlice(flat, g, i))] :
        <<flat, g>> \in UNION { { <<f, c>> : c \in GroupCuts(Len(f), Len(ws)) } :
                                  f \in SeqUpTo(ResultObjects, MaxAutoResults) } }

AutoFields ==
    { [gpus_used |-> <<0, 1>>],
      [ocr_text |-> "NIKE", cleaned_ocr_text |-> "nike"] }

\* the JSON bodies of a 200: the contract's body, and bodies that lack one of
\* the keys the handler indexes
AutoBodies ==
    UNION { { [weights_searched |-> ws, candidate_pool |-> candidate_pool,
               top_n |-> top_n, results_by_weight |-> rbw] @@ o :
                rbw \in ResultsByWeight(ws), o \in AutoFields } : ws \in WeightLists }
        \cup { [weights_searched |-> <<50>>, candidate_pool |-> candidate_pool,
                top_n |-> top_n],
               [candidate_pool |-> candidate_pool, top_n |-> top_n,
                results_by_weight |-> <<>>],
               [weights_searched |-> <<50>>, candidate_pool |-> candidate_pool,
                top_n |-> top_n,
                results_by_weight |-> << [semantic_weight |-> 50, text_weight |-> 50] >>] }

AutoResponses ==
    { HttpResponse(200, <<"automated">>, TRUE, d) : d \in AutoBodies }
        \cup { NotJsonResponse } \cup ErrorResponses

\* the groups a handler walks through after this response
GroupsOf(resp) ==
    IF resp.kind = "response" /\ resp.status_code = 200 /\ resp.json_ok
       /\ "results_by_weight" \in DOMAIN resp.data
    THEN resp.data.results_by_weight
    ELSE <<>>

\* the results of all groups, in the order the nested loops reach them
AllResults(groups) ==
    Flatten([i \in 1..Len(groups) |-> Get(groups[i], "results", <<>>)])

\* every group from the balanced weight upwards starts expanded
StExpanderGroupFromHalf(weight_result, thumbs) ==
    [w |-> "expander",
     semantic_weight |-> weight_result.semantic_weight,
     text_weight |-> weight_result.text_weight,
     shape_focus |-> weight_result.shape_focus_active,
     count |-> Len(weight_result.results),
     expanded |-> (weight_result.semantic_weight >= 50),
     body |-> RenderResults(weight_result.results, TRUE, thumbs)]

\* with st.expander(label, expanded=(sw == 0.5)): the cards of the group
StExpanderGroup(weight_result, thumbs) ==
    [w |-> "expander",
     semantic_weight |-> weight_result.semantic_weight,
     text_weight |-> weight_result.text_weight,
     shape_focus |-> weight_result.shape_focus_active,
     count |-> Len(weight_result.results),
     expanded |-> (weight_result.semantic_weight = 50),
     body |-> RenderResults(weight_result.results, TRUE, thumbs)]

GroupKeys == { "semantic_weight", "text_weight", "shape_focus_active", "results" }

\* the first of the keys, in the order the loop body reads them, that the
\* entry lacks
FirstMissing(weight_result) ==
    IF "semantic_weight" \notin DOMAIN weight_result THEN "semantic_weight"
    ELSE IF "text_weight" \notin DOMAIN weight_result THEN "text_weight"
    ELSE IF "shape_focus_active" \notin DOMAIN weight_result THEN "shape_focus_active"
    ELSE "results"

RECURSIVE RenderGroups(_, _)
\* for weight_result in data['results_by_weight']: one expander each, until
\* an entry lacks a key; thumbs holds the outcomes of the thumbnail fetches
\* of all groups, in the order of AllResults
RenderGroups(groups, thumbs) ==
    IF groups = <<>> THEN Ran(<<>>, <<>>)
    ELSE IF ~(GroupKeys \subseteq DOMAIN Head(groups))
    THEN Ran(KeyError(FirstMissing(Head(groups))), <<>>)
    ELSE LET n == Len(Head(groups).results)
             rest == RenderGroups(Tail(groups), SubSeq(thumbs, n + 1, Len(thumbs)))
         IN  Ran(<< StExpanderGroup(Head(groups), SubSeq(thumbs, 1, n)) >> \o rest.out,
                 ThumbFetches(Head(groups).results, SubSeq(thumbs, 1, n)) \o rest.fetched)

AutoSuccess(data, thumbs) ==
    IF "weights_searched" \notin DOMAIN data
    THEN Ran(KeyError("weights_searched"), <<>>)
    ELSE LET head == << StMetricN("Weights Tested", Len(data.weights_searched)),
                        StMetricN("GPUs Used", Len(Get(data, "gpus_used", <<>>))) >>
         IN  IF "candidate_pool" \notin DOMAIN data
             THEN Ran(head \o KeyError("candidate_pool"), <<>>)
             ELSE IF "top_n" \notin DOMAIN data
             THEN Ran(head \o << StMetricN("Candidate Pool", data.candidate_pool) >>
                           \o KeyError("top_n"), <<>>)
             ELSE LET top == head
                             \o << StMetricN("Candidate Pool", data.candidate_pool),
                                   StMetricN("Results/Weight", data.top_n) >>
                             \o OcrElements(data) \o << StDivider >>
                  IN  IF "results_by_weight" \notin DOMAIN data
                      THEN Ran(top \o KeyError("results_by_weight"), <<>>)
                      ELSE LET groups == RenderGroups(data.results_by_weight, thumbs)
                           IN  Ran(top \o groups.out, groups.fetched)

AutoHandler(resp, thumbs, as_request_exception) ==
    IF resp.kind # "response"
    THEN Ran(ConnectionErrorMsg(resp.kind), <<>>)
    ELSE IF resp.status_code = 200
    THEN IF resp.json_ok
         THEN AutoSuccess(resp.data, thumbs)
         ELSE Ran(JsonError(as_request_exception), <<>>)
    ELSE Ran(ApiError(resp), <<>>)

ClickAutoSearch ==
    /\ Idle
    /\ uploaded_file_auto.present
    /\ Sends("auto", AutoCall)
    /\ UNCHANGED config
    /\ UNCHANGED inputs

\* requests.post returns or raises, and the handler runs to its end
AutoSearchReturns ==
    /\ Awaits("auto")
    /\ \E resp \in AutoResponses \cup RequestFailures :
        \E thumbs \in ThumbChoices(AllResults(GroupsOf(resp))), e \in JsonErrorChoices(resp) :
            LET ran == AutoHandler(resp, thumbs, e)
            IN  /\ calls' = calls \o CallsOf(ran.fetched)
                /\ replies' = RepliesOf(ran.fetched)
                /\ wire' = wire \o << ReturnEvent(calls[1]) >> \o WireOf(ran.fetched)
                /\ response' = resp
                /\ rendered' = ran.out
    /\ UNCHANGED panel
    /\ UNCHANGED config
    /\ UNCHANGED inputs

(***************************************************************************)
(* Tab 4: Vienna classification.                                           *)
(***************************************************************************)
UploadVienna ==
    \E f \in Files :
        /\ Idle
        /\ f # uploaded_file_vienna
        /\ uploaded_file_vienna' = f
        /\ UNCHANGED <<uploaded_file, uploaded_file_auto, query>>
        /\ UNCHANGED config
        /\ NoHandler

ViennaCall ==
    [method |-> "POST", url |-> "/predict/vienna-classes/",
     files |-> [image |-> uploaded_file_vienna.bytes],
     params |-> [threshold_probability |-> vienna_threshold],
     timeout |-> VIENNA_TIMEOUT]

\* the probabilities the service answers with, in thousandths
Probabilities == { 100, 399, 400, 450, 699, 700, 750 }

\* the predictions the service answers with: the contract's four fields, and
\* one prediction that lacks two of them
PredObjects ==
    { [category_code |-> "1.1.1", category_type |-> "figurative",
       description |-> "Stars", probability |-> p] : p \in Probabilities }
        \cup { [category_code |-> "26.4", category_type |-> "geometric",
                description |-> "", probability |-> 1000],
               [category_code |-> "3.7", category_type |-> "animals"] }

PredLists == SeqUpTo(PredObjects, MaxPreds)

ViennaResponses ==
    { HttpResponse(200, <<"vienna">>, TRUE, preds) : preds \in PredLists }
        \cup { NotJsonResponse } \cup ErrorResponses

\* the tokens of a JSON text
Tok(t) == [t |-> t]

TokKey(k) == [t |-> "key", v |-> k]

TokValue(v) == [t |-> "value", v |-> v]

\* the keys of a prediction in the order they are written
PredKeyOrder == << "category_code", "category_type", "description", "probability" >>

RECURSIVE Join(_, _)
\* the parts, with sep between every two of them
Join(parts, sep) ==
    IF parts = <<>> THEN <<>>
    ELSE IF Len(parts) = 1 THEN Head(parts)
    ELSE Head(parts) \o << sep >> \o Join(Tail(parts), sep)

\* json.dumps of one dict: { "key": value, ... }
DumpsObject(d) ==
    LET keys == SelectSeq(PredKeyOrder, LAMBDA k : k \in DOMAIN d)
    IN  << Tok("{") >>
        \o Join([i \in 1..Len(keys) |->
                    << TokKey(keys[i]), Tok(":"), TokValue(d[keys[i]]) >>], Tok(","))
        \o << Tok("}") >>

\* json.dumps(predictions, indent=2): [ {...}, {...} ]
json_dumps(list) ==
    << Tok("[") >>
    \o Join([i \in 1..Len(list) |-> DumpsObject(list[i])], Tok(","))
    \o << Tok("]") >>

\* a dict without keys
EmptyDict == [k \in {} |-> 0]

RECURSIVE ParseTokens(_, _, _)
\* reads the tokens from left to right: cur is the dict being read and
\* done the dicts read so far
ParseTokens(toks, cur, done) ==
    IF toks = <<>> THEN done
    ELSE LET tok == Head(toks)
         IN  IF tok.t = "{" THEN ParseTokens(Tail(toks), EmptyDict, done)
             ELSE IF tok.t = "key"
             THEN ParseTokens(SubSeq(toks, 4, Len(toks)),
                              cur @@ (tok.v :> toks[3].v), done)
             ELSE IF tok.t = "}" THEN ParseTokens(Tail(toks), cur, Append(done, cur))
             ELSE ParseTokens(Tail(toks), cur, done)

\* json.loads of the text that json_dumps wrote
json_loads(toks) == ParseTokens(toks, EmptyDict, <<>>)

\* the export filtered once more by the threshold of the sidebar
StDownloadButtonAboveThreshold(predictions) ==
    [w |-> "download_button", file_name |-> "vienna_classifications.json",
     data |-> json_dumps(SelectSeq(predictions,
                  LAMBDA pred : pred.probability >= 10 * vienna_threshold))]

\* st.download_button(data=json.dumps(predictions, indent=2), ...)
StDownloadButton(predictions) ==
    [w |-> "download_button", file_name |-> "vienna_classifications.json",
     data |-> json_dumps(predictions)]

\* with st.expander("View as Table"): st.dataframe(pd.DataFrame(predictions))
StExpanderTable(predictions) ==
    [w |-> "expander_dataframe", rows |-> predictions]

\* the body of  for pred in predictions:  as far as it gets
PredCard(pred) ==
    IF "category_code" \notin DOMAIN pred
    THEN KeyError("category_code")
    ELSE LET code == << [w |-> "markdown", label |-> "Code", text |-> pred.category_code] >>
         IN  IF "category_type" \notin DOMAIN pred
             THEN code \o KeyError("category_type")
             ELSE LET type == code \o << [w |-> "caption",
                                          items |-> << <<"Type", pred.category_type>> >>] >>
                  IN  IF "description" \notin DOMAIN pred
                      THEN type \o KeyError("description")
                      ELSE LET desc == type \o << [w |-> "markdown", label |-> "Description",
                                                    text |-> pred.description] >>
                           IN  IF "probability" \notin DOMAIN pred
                               THEN desc \o KeyError("probability")
                               ELSE desc \o << ScoreBadge(pred.probability), StDivider >>

PredKeys == { "category_code", "category_type", "description", "probability" }

RECURSIVE RenderPreds(_)
\* the loop over the predictions; raised says that a card raised a KeyError
RenderPreds(predictions) ==
    IF predictions = <<>> THEN [out |-> <<>>, raised |-> FALSE]
    ELSE IF ~(PredKeys \subseteq DOMAIN Head(predictions))
    THEN [out |-> PredCard(Head(predictions)), raised |-> TRUE]
    ELSE LET rest == RenderPreds(Tail(predictions))
         IN  [out |-> PredCard(Head(predictions)) \o rest.out, raised |-> rest.raised]

\* the body of  if response.status_code == 200:
ViennaSuccess(predictions) ==
    IF predictions # <<>>
    THEN LET cards == RenderPreds(predictions)
             top == << StSuccess(<<"Found Vienna classifications", Len(predictions)>>),
                       StDivider, StSubheader("Predicted Classifications") >>
         IN  IF cards.raised
             THEN top \o cards.out
             ELSE top \o cards.out
                  \o << StDownloadButton(predictions), StExpanderTable(predictions) >>
    ELSE << StWarning("No Vienna classifications found above the threshold") >>

ViennaHandler(resp, as_request_exception) ==
    IF resp.kind # "response"
    THEN ConnectionErrorMsg(resp.kind)
    ELSE IF resp.status_code = 200
    THEN IF resp.json_ok
         THEN ViennaSuccess(resp.data)
         ELSE JsonError(as_request_exception)
    ELSE ApiError(resp)

ClickVienna ==
    /\ Idle
    /\ uploaded_file_vienna.present
    /\ Sends("vienna", ViennaCall)
    /\ UNCHANGED config
    /\ UNCHANGED inputs

\* requests.post returns or raises, and the handler runs to its end
ViennaReturns ==
    /\ Awaits("vienna")
    /\ \E resp \in ViennaResponses \cup RequestFailures :
        \E e \in JsonErrorChoices(resp) :
            /\ response' = resp
            /\ rendered' = ViennaHandler(resp, e)
    /\ wire' = wire \o << ReturnEvent(calls[1]) >>
    /\ UNCHANGED <<panel, calls, replies>>
    /\ UNCHANGED config
    /\ UNCHANGED inputs

NextVienna ==
    \/ UploadVienna
    \/ SetViennaThreshold
    \/ ClickVienna
    \/ ViennaReturns

SpecVienna == Init /\ [][NextVienna]_vars

NextAuto ==
    \/ UploadAuto
    \/ ClickAutoSearch
    \/ AutoSearchReturns

SpecAuto == Init /\ [][NextAuto]_vars

NextImage ==
    \/ UploadImage
    \/ SetSemanticWeight
    \/ ClickImageSearch
    \/ ImageSearchReturns

SpecImage == Init /\ [][NextImage]_vars

NextText ==
    \/ SetQuery
    \/ SetTopN
    \/ ClickTextSearch
    \/ TextSearchReturns

SpecText == Init /\ [][NextText]_vars

NextSidebar ==
    \/ SetTopN
    \/ SetCandidatePool
    \/ SetSemanticWeight
    \/ SetUseOcr
    \/ SetViennaThreshold
    \/ ClickHealth
    \/ HealthReturns

SpecSidebar == Init /\ [][NextSidebar]_vars

(***************************************************************************)
(* display_result_card on its own, for result objects with any of the      *)
(* fields of the service contract.                                         *)
(***************************************************************************)
\* a result that carries every field
FullResult ==
    [application_number |-> "TM-9", verbal_element |-> "ACME", class |-> "35",
     trade_mark_type |-> "WORD", tmr_application_status |-> "Registered",
     application_date |-> "2015-05-05", trade_mark_reg_date |-> "2016-06-06",
     image_url |-> "http://img/9", final_score |-> 700, score |-> 400,
     text_score |-> 399, semantic_score_norm |-> 800, text_score_norm |-> 100]

ResultFields == DOMAIN FullResult

\* the results that carry any subset of the fields, the empty object included
AnyResultObjects ==
    { [k \in fields |-> FullResult[k]] : fields \in SUBSET ResultFields }

\* the arguments of one call of display_result_card
CardArguments(result, show_weights) ==
    [kind |-> "card", result |-> result, show_weights |-> show_weights]

\* a loop over results is about to call display_result_card(result,
\* show_weights) on a page where nothing is drawn yet
InitCard ==
    /\ top_n = TOP_N_DEFAULT
    /\ candidate_pool = POOL_DEFAULT
    /\ semantic_weight = WEIGHT_DEFAULT
    /\ use_ocr = TRUE
    /\ vienna_threshold = THRESHOLD_DEFAULT
    /\ uploaded_file = NoFile
    /\ uploaded_file_auto = NoFile
    /\ uploaded_file_vienna = NoFile
    /\ query = <<>>
    /\ panel = "card"
    /\ calls = <<>>
    /\ replies = <<>>
    /\ wire = <<>>
    /\ \E result \in AnyResultObjects, show_weights \in BOOLEAN :
          response = CardArguments(result, show_weights)
    /\ rendered = <<>>

\* the call of display_result_card, with the thumbnail fetch it makes
RenderCard ==
    /\ panel = "card"
    /\ rendered = <<>>
    /\ \E thumbs \in ThumbChoices(<< response.result >>) :
          LET fetched == ThumbFetches(<< response.result >>, thumbs)
          IN  /\ calls' = CallsOf(fetched)
              /\ replies' = RepliesOf(fetched)
              /\ wire' = WireOf(fetched)
              /\ rendered' = display_result_card(response.result,
                                                 response.show_weights, thumbs[1])
    /\ UNCHANGED <<panel, response>>
    /\ UNCHANGED config
    /\ UNCHANGED inputs

SpecCard == InitCard /\ [][RenderCard]_vars

(***************************************************************************)
(* The whole console.                                                      *)
(***************************************************************************)
Next ==
    \/ SetTopN
    \/ SetCandidatePool
    \/ SetSemanticWeight
    \/ SetUseOcr
    \/ SetViennaThreshold
    \/ ClickHealth
    \/ HealthReturns
    \/ UploadImage
    \/ ClickImageSearch
    \/ ImageSearchReturns
    \/ UploadAuto
    \/ ClickAutoSearch
    \/ AutoSearchReturns
    \/ SetQuery
    \/ ClickTextSearch
    \/ TextSearchReturns
    \/ UploadVienna
    \/ ClickVienna
    \/ ViennaReturns

Spec == Init /\ [][Next]_vars

\* the page once every uploader holds a file and the query box holds text
InitPanels ==
    /\ top_n = TOP_N_DEFAULT
    /\ candidate_pool = POOL_DEFAULT
    /\ semantic_weight = WEIGHT_DEFAULT
    /\ use_ocr = TRUE
    /\ vienna_threshold = THRESHOLD_DEFAULT
    /\ uploaded_file = File(<<137, 80>>)
    /\ uploaded_file_auto = File(<<137, 80>>)
    /\ uploaded_file_vienna = File(<<137, 80>>)
    /\ query = << "a" >>
    /\ panel = "none"
    /\ calls = <<>>
    /\ replies = <<>>
    /\ wire = <<>>
    /\ response = NoResponse
    /\ rendered = <<>>

\* the four search buttons, clicked in any order
NextPanels ==
    \/ ClickImageSearch
    \/ ImageSearchReturns
    \/ ClickAutoSearch
    \/ AutoSearchReturns
    \/ ClickTextSearch
    \/ TextSearchReturns
    \/ ClickVienna
    \/ ViennaReturns

SpecPanels == InitPanels /\ [][NextPanels]_vars

\* every button of the page, clicked in any order
NextButtons ==
    \/ ClickHealth
    \/ HealthReturns
    \/ ClickImageSearch
    \/ ImageSearchReturns
    \/ ClickAutoSearch
    \/ AutoSearchReturns
    \/ ClickTextSearch
    \/ TextSearchReturns
    \/ ClickVienna
    \/ ViennaReturns

SpecButtons == InitPanels /\ [][NextButtons]_vars

(***************************************************************************)
(* Properties.                                                             *)
(***************************************************************************)
\* the elements of a sequence, as a set
Range(seq) == { seq[i] : i \in 1..Len(seq) }

\* the elements of that kind, in their order
OfKind(out, kind) == SelectSeq(out, LAMBDA e : e.w = kind)

\* the handler of that panel ran to its end on the response it received
Finished(name) == panel = name /\ response.kind \notin {"none", "pending"}

\* the handler received a 200 whose body is JSON
Got200Json(name) ==
    /\ Finished(name)
    /\ response.kind = "response"
    /\ response.status_code = 200
    /\ response.json_ok

\* result rows of any kind: cards, weight groups, prediction rows, exports
RowKinds == { "card", "expander", "badge", "markdown", "caption",
              "download_button", "expander_dataframe", "metric" }

NoRows(out) == \A e \in Range(out) : e.w \notin RowKinds

\* the card shows this result: its application number (N/A without one) and
\* the score of the first of final_score, score, text_score it carries
CardShows(card, result) ==
    /\ card.col2 # <<>>
    /\ card.col2[1].text =
          (IF "application_number" \in DOMAIN result
           THEN result.application_number ELSE "N/A")
    /\ LET badges == OfKind(card.col3, "badge")
       IN  IF "final_score" \in DOMAIN result
           THEN Len(badges) = 1 /\ badges[1].score = result.final_score
           ELSE IF "score" \in DOMAIN result
           THEN Len(badges) = 1 /\ badges[1].score = result.score
           ELSE IF "text_score" \in DOMAIN result
           THEN Len(badges) = 1 /\ badges[1].score = result.text_score
           ELSE badges = <<>>

\* the cards are those of the results: as many, in the same order
CardsFollow(cards, results) ==
    /\ Len(cards) = Len(results)
    /\ \A i \in 1..Len(results) : CardShows(cards[i], results[i])

\* the text is blank: empty or whitespace only
Blank(text) == \A i \in 1..Len(text) : text[i] \in Whitespace

\* inner is text without the whitespace at its two ends
IsTrimOf(inner, text) ==
    /\ inner # <<>>
    /\ inner[1] \notin Whitespace
    /\ inner[Len(inner)] \notin Whitespace
    /\ \E a \in 0..Len(text) :
          /\ a + Len(inner) <= Len(text)
          /\ SubSeq(text, a + 1, a + Len(inner)) = inner
          /\ \A k \in 1..Len(text) :
                (k <= a \/ k > a + Len(inner)) => text[k] \in Whitespace

\* C1: a click on the text search button with a blank query (empty or
\* whitespace only) issues no request at all; with any other query the run
\* issues exactly one GET /search/text, whose parameters are the query
\* without its leading and trailing whitespace and the current top_n.
C1_BlankQueryNeverSent ==
    panel = "text" =>
        LET sent == SelectSeq(calls, LAMBDA c : c.url = "/search/text")
        IN  IF Blank(query)
            THEN calls = <<>>
            ELSE /\ Len(sent) = 1
                 /\ calls[1] = sent[1]
                 /\ sent[1].method = "GET"
                 /\ DOMAIN sent[1].params = {"query", "top_n"}
                 /\ IsTrimOf(sent[1].params.query, query)
                 /\ sent[1].params.top_n = top_n

C1_Witness ==
    /\ panel = "text"
    /\ query = << " ", "a", "\t" >>
    /\ top_n = TOP_N_MAX
    /\ Len(calls) = 1
    /\ calls[1].params.query = << "a" >>

\* the body of the image search response has the keys of the contract
ImageBodyComplete ==
    {"results", "semantic_weight"} \subseteq DOMAIN response.data

\* C2: after a 200 image search response that carries N results, the panel
\* shows exactly N cards, the i-th card showing the i-th result of the
\* response: nothing is dropped, repeated or moved, whatever the scores.
C2_ImageResultsInServerOrder ==
    (Got200Json("image") /\ ImageBodyComplete) =>
        CardsFollow(OfKind(rendered, "card"), response.data.results)

C2_Witness ==
    /\ Got200Json("image")
    /\ ImageBodyComplete
    /\ Len(response.data.results) = 2
    /\ "text_score" \in DOMAIN response.data.results[1]
    /\ "final_score" \in DOMAIN response.data.results[2]
    /\ Len(OfKind(rendered, "card")) = 2
    /\ OfKind(rendered, "card")[1].col2[1].text = "TM-3"

SearchPanels == { "image", "auto", "text", "vienna" }

\* C3: in each of the four panels a response whose status is not a 2xx is
\* shown as an API error with the status code, followed by the body of the
\* response, and nothing else is rendered: no card, group or prediction.
C3_Non2xxShownAsApiError ==
    \A name \in SearchPanels :
        (Finished(name) /\ response.kind = "response"
            /\ response.status_code \notin 200..299) =>
            /\ Len(rendered) = 2
            /\ rendered[1].w = "error"
            /\ rendered[1].msg = <<"API Error", response.status_code>>
            /\ rendered[2].w = "expander_code"
            /\ rendered[2].text = response.text
            /\ NoRows(rendered)
            /\ Len(calls) = 1

C3_Witness ==
    /\ Finished("vienna")
    /\ response.kind = "response"
    /\ response.status_code = 500
    /\ response.text = <<"detail", "internal error">>
    /\ rendered[1].msg = <<"API Error", 500>>

\* the thumbnail fetch did not deliver an image
ThumbFailed(reply) ==
    \/ reply.kind # "response"
    \/ reply.status_code # 200
    \/ ~reply.is_image

\* the number of thumbnail fetches made for the first i results
FetchIndex(results, i) == Cardinality({ j \in 1..i : FetchesThumb(results[j]) })

Placeholders ==
    { StInfo("Image unavailable"), StWarning("Image load failed") }

\* C4: while the results of an image search are rendered, a thumbnail fetch
\* that raises, times out, is not a 200 or is no image leaves a placeholder
\* in the first column of its own card; that card still shows its details and
\* score, every result of the response still has its card, and the panel
\* shows no error.
C4_ThumbnailFailureStaysInItsRow ==
    (Got200Json("image") /\ ImageBodyComplete) =>
        LET results == response.data.results
            cards == OfKind(rendered, "card")
        IN  /\ Len(replies) = FetchIndex(results, Len(results))
            /\ Len(cards) = Len(results)
            /\ \A i \in 1..Len(results) :
                  (FetchesThumb(results[i])
                      /\ ThumbFailed(replies[FetchIndex(results, i)])) =>
                      /\ cards[i].col1 \in Placeholders
                      /\ CardShows(cards[i], results[i])
                      /\ \A j \in (i + 1)..Len(results) :
                            CardShows(cards[j], results[j])
            /\ OfKind(rendered, "error") = <<>>

C4_Witness ==
    /\ Got200Json("image")
    /\ ImageBodyComplete
    /\ Len(response.data.results) = 2
    /\ Len(replies) = 2
    /\ replies[1].kind = "timeout"
    /\ replies[2].kind = "response" /\ replies[2].status_code = 200
    /\ replies[2].is_image
    /\ OfKind(rendered, "card")[1].col1 = StWarning("Image load failed")
    /\ OfKind(rendered, "card")[2].col1.w = "image"

\* the score badges on the page: those of the prediction rows, of the cards
\* and of the cards inside the weight groups
Badges ==
    Range(OfKind(rendered, "badge"))
        \cup UNION { Range(OfKind(c.col3, "badge")) : c \in Range(OfKind(rendered, "card")) }
        \cup UNION { UNION { Range(OfKind(c.col3, "badge")) :
                               c \in Range(OfKind(g.body, "card")) } :
                       g \in Range(OfKind(rendered, "expander")) }

\* C5: every score badge, of a search result or of a Vienna prediction,
\* has the high class exactly when its score is at least 0.7, the medium
\* class exactly when it is at least 0.4 and below 0.7, and the low class
\* exactly when it is below 0.4.
C5_ScoreClassThresholds ==
    \A b \in Badges :
        /\ b.class \in { "score-high", "score-medium", "score-low" }
        /\ b.class = "score-high" <=> b.score >= 700
        /\ b.class = "score-medium" <=> (b.score >= 400 /\ b.score < 700)
        /\ b.class = "score-low" <=> b.score < 400

C5_Witness ==
    /\ Finished("vienna")
    /\ \E b \in Badges : b.score = 700 /\ b.class = "score-high"
    /\ \E b \in Badges : b.score = 400 /\ b.class = "score-medium"

\* the body of the automated search response has the keys of the contract
AutoBodyComplete ==
    /\ {"weights_searched", "candidate_pool", "top_n", "results_by_weight"}
          \subseteq DOMAIN response.data
    /\ \A i \in 1..Len(response.data.results_by_weight) :
          GroupKeys \subseteq DOMAIN response.data.results_by_weight[i]

\* C6: an automated search renders one group per entry of results_by_weight,
\* in the order of the response, each with the cards of its own results; a
\* group starts expanded exactly when its semantic weight is 0.5.  For the
\* weights 0.0, 0.25, 0.5, 0.75, 1.0 that is five groups, the third
\* expanded and the other four collapsed.
C6_OneGroupPerWeight ==
    (Got200Json("auto") /\ AutoBodyComplete) =>
        LET entries == response.data.results_by_weight
            groups == OfKind(rendered, "expander")
        IN  /\ Len(groups) = Len(entries)
            /\ \A i \in 1..Len(entries) :
                  /\ groups[i].semantic_weight = entries[i].semantic_weight
                  /\ groups[i].expanded <=> entries[i].semantic_weight = 50
                  /\ CardsFollow(OfKind(groups[i].body, "card"), entries[i].results)
            /\ OfKind(rendered, "card") = <<>>
            /\ response.data.weights_searched = <<0, 25, 50, 75, 100>> =>
                  /\ Len(groups) = 5
                  /\ { i \in 1..5 : groups[i].expanded } = {3}

C6_Witness ==
    /\ Got200Json("auto")
    /\ AutoBodyComplete
    /\ response.data.weights_searched = <<0, 25, 50, 75, 100>>
    /\ Len(OfKind(rendered, "expander")) = 5
    /\ OfKind(rendered, "expander")[3].expanded
    /\ ~OfKind(rendered, "expander")[5].expanded
    /\ Len(OfKind(rendered, "expander")[1].body) > 0
    /\ Len(OfKind(rendered, "expander")[5].body) > 0
    /\ OfKind(rendered, "expander")[1].body # OfKind(rendered, "expander")[5].body

\* every prediction of the response has the four fields of the contract
PredsComplete ==
    \A i \in 1..Len(response.data) : PredKeys \subseteq DOMAIN response.data[i]

\* C7: after a Vienna response with a non-empty list of predictions the
\* page offers one download, and its text parsed as JSON is the list the
\* service returned: as many predictions, in the same order, each with the
\* same keys and values; the table shows the same list.
C7_DownloadIsWhatServiceReturned ==
    /\ (Got200Json("vienna") /\ response.data # <<>> /\ PredsComplete) =>
          /\ Len(OfKind(rendered, "download_button")) = 1
          /\ Len(OfKind(rendered, "expander_dataframe")) = 1
    /\ \A e \in Range(OfKind(rendered, "download_button")) :
          LET parsed == json_loads(e.data)
          IN  /\ Got200Json("vienna")
              /\ Len(parsed) = Len(response.data)
              /\ \A i \in 1..Len(parsed) :
                    /\ DOMAIN parsed[i] = DOMAIN response.data[i]
                    /\ \A k \in DOMAIN parsed[i] : parsed[i][k] = response.data[i][k]
    /\ \A e \in Range(OfKind(rendered, "expander_dataframe")) :
          e.rows = response.data

C7_Witness ==
    /\ Got200Json("vienna")
    /\ Len(response.data) = 2
    /\ PredsComplete
    /\ response.data[1].probability = 100
    /\ response.data[2].probability = 750
    /\ Len(OfKind(rendered, "download_button")) = 1
    /\ Len(json_loads(OfKind(rendered, "download_button")[1].data)) = 2

\* the values of the sidebar are within the ranges of their widgets
ConfigInBounds ==
    /\ top_n \in TOP_N_MIN..TOP_N_MAX
    /\ top_n >= 1
    /\ candidate_pool \in POOL_MIN..POOL_MAX
    /\ candidate_pool % POOL_STEP = 0
    /\ candidate_pool >= 1
    /\ semantic_weight \in {0, 25, 50, 75, 100}
    /\ use_ocr \in BOOLEAN
    /\ vienna_threshold \in 0..100

\* the controls of the sidebar whose value this step changes
ChangedControls ==
    { i \in 1..5 : config[i] # config'[i] }

\* C8: whatever the order in which the controls of the sidebar are moved,
\* top_n stays an integer in 5..50, candidate_pool a multiple of 50 in
\* 50..2000, semantic_weight one of 0.0, 0.25, 0.5, 0.75, 1.0 and
\* vienna_threshold in [0,1]; and no step changes more than one of them.
C8_ConfigStaysInBounds ==
    /\ []ConfigInBounds
    /\ [][Cardinality(ChangedControls) <= 1]_vars

C8_Witness ==
    /\ top_n = TOP_N_MAX
    /\ candidate_pool = POOL_MAX
    /\ semantic_weight = 0
    /\ ~use_ocr
    /\ vienna_threshold = THRESHOLD_MAX

\* the panel reports a connection error and nothing else
ConnectionErrorReported ==
    /\ Len(rendered) = 1
    /\ rendered[1].w = "error"
    /\ rendered[1].msg[1] = "Connection error"

C10_HealthProbeOnce ==
    panel = "health" =>
        /\ Len(calls) = 1
        /\ calls[1].method = "GET"
        /\ calls[1].url = "/health"
        /\ Finished("health") =>
              IF response.kind = "response" /\ response.status_code = 200
                 /\ response.json_ok
              THEN /\ Len(rendered) = 2
                   /\ rendered[1] = StSuccess("API Healthy!")
                   /\ rendered[2].w = "expander_json"
                   /\ rendered[2].data = response.data
              ELSE /\ Len(rendered) = 1
                   /\ rendered[1].w = "error"

C10_Witness ==
    /\ Finished("health")
    /\ response.kind = "response"
    /\ response.status_code = 500
    /\ rendered = << StError("API Unhealthy") >>
    /\ Len(calls) = 1

\* the score fields in the order display_result_card looks for them
ScoreFieldOrder == << "final_score", "score", "text_score" >>

\* the first score field the result carries, as a set: empty without one
FirstScoreField(result) ==
    { ScoreFieldOrder[i] : i \in { j \in 1..3 :
        /\ ScoreFieldOrder[j] \in DOMAIN result
        /\ \A k \in 1..(j - 1) : ScoreFieldOrder[k] \notin DOMAIN result } }

\* C11: for a result object with any subset of the thirteen fields, the
\* empty object included, display_result_card draws the whole card: the
\* three columns and the divider.  The first column is the thumbnail or a
\* placeholder, the second starts with the application number or N/A, the
\* third holds at most one score badge, that of the first of final_score,
\* score, text_score the result carries; a thumbnail is fetched only for a
\* result with an image_url, and the result passed in is the one shown.
C11_CardToleratesMissingFields ==
    (panel = "card" /\ rendered # <<>>) =>
        LET result == response.result
            card == rendered[1]
            badges == OfKind(card.col3, "badge")
        IN  /\ Len(rendered) = 2
            /\ card.w = "card"
            /\ rendered[2] = StDivider
            /\ card.col1.w \in { "image", "info", "warning" }
            /\ "image_url" \notin DOMAIN result =>
                  (card.col1 = StInfo("No image") /\ calls = <<>>)
            /\ "image_url" \in DOMAIN result =>
                  (Len(calls) = 1 /\ calls[1].url = result.image_url)
            /\ card.col2[1].label = "Application"
            /\ card.col2[1].text =
                  (IF "application_number" \in DOMAIN result
                   THEN result.application_number ELSE "N/A")
            /\ (\E e \in Range(card.col2) : e.w = "markdown" /\ e.label = "Brand")
                  <=> "verbal_element" \in DOMAIN result
            /\ Len(badges) <= 1
            /\ Len(badges) = Cardinality(FirstScoreField(result))
            /\ \A f \in FirstScoreField(result) : badges[1].score = result[f]
            /\ OfKind(rendered, "error") = <<>>

C11_Witness ==
    /\ panel = "card"
    /\ rendered # <<>>
    /\ DOMAIN response.result = { "score", "text_score", "text_score_norm" }
    /\ response.show_weights
    /\ rendered[1].col2[1].text = "N/A"
    /\ rendered[1].col3 = << ScoreBadge(400) >>

\* the paths of the search service
ServicePaths ==
    { "/health", "/search/image", "/search/automated", "/search/text",
      "/predict/vienna-classes/" }

\* the calls that are out and not back after the first n events on the wire
Outstanding(n) ==
    Cardinality({ i \in 1..n : wire[i].ev = "send" })
        - Cardinality({ i \in 1..n : wire[i].ev = "return" })

\* the results whose cards the handler of this run drew
WalkedResults ==
    IF Got200Json("image") /\ ImageBodyComplete
    THEN response.data.results
    ELSE IF Got200Json("text") /\ "results" \in DOMAIN response.data
    THEN response.data.results
    ELSE IF Got200Json("auto") /\ AutoBodyComplete
    THEN AllResults(response.data.results_by_weight)
    ELSE <<>>

\* the image_url of the results that have one, in the order of the results
UrlsToFetch(results) ==
    LET with_url == SelectSeq(results, FetchesThumb)
    IN  [i \in 1..Len(with_url) |-> with_url[i].image_url]

\* C12: the run a button click starts sends exactly one request to the
\* search service, the first call of the run, whatever comes back: after a
\* failure, a timeout or a non-200 no further call is made.  At every point
\* of the run at most one network call is out: the page is blocked exactly
\* while the service request is out, and every thumbnail fetch starts after
\* the call before it has returned.  The thumbnail fetches are those of the
\* results that carry an image_url, one each, in the order of the results.
C12_OneCallAtATime ==
    panel \in SearchPanels \cup {"health"} =>
        /\ Len(SelectSeq(calls, LAMBDA c : c.url \in ServicePaths)) = 1
        /\ calls[1].url \in ServicePaths
        /\ \A n \in 0..Len(wire) : Outstanding(n) \in {0, 1}
        /\ Outstanding(Len(wire)) = 1 <=> response = Pending
        /\ SelectSeq(wire, LAMBDA e : e.ev = "send")
              = [i \in 1..Len(calls) |-> SendEvent(calls[i])]
        /\ response # Pending =>
              /\ Len(replies) = Len(calls) - 1
              /\ [i \in 1..(Len(calls) - 1) |-> calls[i + 1].url]
                    = UrlsToFetch(WalkedResults)
        /\ (response.kind \in {"timeout", "connection_error"}
              \/ (response.kind = "response" /\ response.status_code # 200)) =>
              Len(calls) = 1

C12_Witness ==
    /\ Got200Json("image")
    /\ ImageBodyComplete
    /\ Len(response.data.results) = 2
    /\ Len(calls) = 3
    /\ calls[2].url = "http://img/2"
    /\ calls[3].url = "http://img/1"
    /\ replies[1].kind = "timeout"
    /\ Len(wire) = 6
    /\ wire[4] = ReturnEvent(calls[2])
    /\ wire[5] = SendEvent(calls[3])

====
